---- MODULE Spec2Model ----
(***************************************************************************)
(* A model of netlify/functions/recommendations.js (the revision with the  *)
(* Foursquare rate-limit handling, lines 231-663): the request handler,    *)
(* getPlacesFromFoursquare with its detail fan-out, enhanceWithGemini,     *)
(* getGeminiRecommendations and getMockRecommendations.                    *)
(*                                                                         *)
(* JavaScript values are tagged records: [t |-> "null"], [t |-> "string",  *)
(* s |-> <<chars>>], [t |-> "array", items |-> <<...>>], objects are       *)
(* records with t |-> "object" whose absent properties are absent fields.  *)
(* Strings are tuples of one-character strings, so that toLowerCase,       *)
(* includes, join and repeat are computed and not assumed.                 *)
(***************************************************************************)
EXTENDS Integers, Sequences, FiniteSets, TLC

VARIABLES
    env,            \* process.env: [FOURSQUARE_API_KEY, GEMINI_API_KEY : BOOLEAN]
    event,          \* the request: [httpMethod, body]
    pc,             \* where exports.handler is: start, awaitLookup, awaitGenerate, awaitEnhance, done
    source,         \* handler local `source`
    rateLimitReached, \* handler local `rateLimitReached`
    foursquareResult, \* handler local `foursquareResult` (NoResult before the lookup returns)
    recommendations, \* handler local `recommendations` (undefined until an entry point returns)
    response,       \* what the handler returned (NoResponse before it returns)
    lpc,            \* where getPlacesFromFoursquare is: idle, search, details, returned
    searchResponse, \* what the search fetch gave (NoFetch before it completes)
    slots,          \* the promises of the detail fan-out, in search order
    enhanceInput,   \* the `places` argument of enhanceWithGemini (<<>> when not called)
    geminiResponse, \* what the text-generation fetch gave (NoFetch before it completes)
    calls           \* outbound requests issued: [search, detail, gemini : Nat], and entry-point calls

vars == <<env, event, pc, source, rateLimitReached, foursquareResult, recommendations, response,
          lpc, searchResponse, slots, enhanceInput, geminiResponse, calls>>

(***************************************************************************)
(* Bounds of the model.                                                    *)
(***************************************************************************)
MaxResults == 4     \* search results in one response (the request asks for limit=5)
MaxTextLen == 3     \* tokens of a provider text in the handler flow
MaxParseLen == 5    \* tokens of a provider text in the parsing specification

(***************************************************************************)
(* JavaScript values.                                                      *)
(***************************************************************************)
NullV == [t |-> "null"]
UndefV == [t |-> "undefined"]
StrV(chars) == [t |-> "string", s |-> chars]
ArrV(items) == [t |-> "array", items |-> items]
FnV(id) == [t |-> "function", id |-> id]

\* JavaScript truthiness of a tagged value.
Truthy(v) ==
    CASE v.t = "null" -> FALSE
      [] v.t = "undefined" -> FALSE
      [] v.t = "string" -> v.s # <<>>
      [] v.t = "number" -> v.n # 0
      [] v.t = "boolean" -> v.b
      [] OTHER -> TRUE

\* obj[key] of an object literal: an own property, else what Object.prototype
\* gives, else undefined.
ObjectPrototypeKeys ==
    {"constructor", "toString", "valueOf", "hasOwnProperty", "isPrototypeOf",
     "propertyIsEnumerable", "toLocaleString", "__proto__"}

GetProp(obj, key) ==
    IF key \in DOMAIN obj THEN obj[key]
    ELSE IF key \in ObjectPrototypeKeys THEN FnV(key)
    ELSE UndefV

\* o.p of a record-modelled object: undefined when the property is absent.
Prop(o, p) == IF p \in DOMAIN o THEN o[p] ELSE UndefV

\* `${v}` throws a TypeError for an object whose own toString is not a function
\* (the inherited valueOf gives the object back, which is no primitive)
ToStringThrows(v) == v.t = "object" /\ "toString" \in DOMAIN v /\ v.toString.t # "function"

(***************************************************************************)
(* getMockRecommendations                                                  *)
(***************************************************************************)
SupportedMoods == {"coffee", "quick-bite", "healthy", "comfort", "date-night", "adventure"}

Rec(name, description, distance) ==
    [t |-> "object", name |-> StrV(<<name>>), address |-> StrV(<<"Multiple locations">>),
     description |-> StrV(<<description>>),
     distance |-> StrV(<<distance>>), hours |-> StrV(<<"Open now">>)]

mockData ==
    [m \in SupportedMoods |->
        CASE m = "coffee" ->
               ArrV(<<Rec("Starbucks", "Cozy corner cafe", "5 min walk"),
                      Rec("Peet's Coffee", "Known for bold, rich roasts", "8 min walk")>>)
          [] m = "quick-bite" ->
               ArrV(<<Rec("Chipotle", "Fast-casual spot", "3 min walk"),
                      Rec("Panera Bread", "Quick service restaurant", "5 min walk")>>)
          [] m = "healthy" ->
               ArrV(<<Rec("Sweetgreen", "Farm-to-table salads", "7 min walk"),
                      Rec("Panera Bread", "Nutrient-packed meals", "10 min walk")>>)
          [] m = "comfort" ->
               ArrV(<<Rec("Applebee's", "Hearty comfort food classics", "8 min drive"),
                      Rec("Chili's", "Warm, inviting spot", "12 min drive")>>)
          [] m = "date-night" ->
               ArrV(<<Rec("The Cheesecake Factory", "Upscale casual dining", "10 min drive"),
                      Rec("Olive Garden", "Italian classics", "15 min drive")>>)
          [] m = "adventure" ->
               ArrV(<<Rec("P.F. Chang's", "Explore bold Asian-inspired flavors", "12 min drive"),
                      Rec("Benihana", "Japanese hibachi experience", "15 min drive")>>)]

\* return mockData[mood] || mockData['quick-bite'];
getMockRecommendations(mood) ==
    LET v == GetProp(mockData, mood)
    IN  IF Truthy(v) THEN v ELSE mockData["quick-bite"]

(***************************************************************************)
(* Strings                                                                 *)
(***************************************************************************)
NumV(tenths) == [t |-> "number", n |-> tenths]    \* a number, in tenths
BoolV(b) == [t |-> "boolean", b |-> b]
IsString(v) == v.t = "string"

LowerChar(c) ==
    CASE c = "A" -> "a" [] c = "B" -> "b" [] c = "C" -> "c" [] c = "Z" -> "z" [] OTHER -> c

\* String.prototype.toLowerCase
toLowerCase(chars) == [i \in 1..Len(chars) |-> LowerChar(chars[i])]

\* String.prototype.includes: b is a contiguous part of a
includes(a, b) ==
    \E i \in 0..(Len(a) - Len(b)) : \A j \in 1..Len(b) : a[i + j] = b[j]

\* Array.prototype.join(', ') of a list of strings
RECURSIVE join(_)
join(parts) ==
    IF parts = <<>> THEN <<>>
    ELSE IF Len(parts) = 1 THEN parts[1]
    ELSE parts[1] \o <<",", " ">> \o join(Tail(parts))

\* Math.round of a positive number given in tenths
MathRound(tenths) == (tenths + 5) \div 10

\* '$'.repeat(n) for n >= 0
repeat(c, n) == [i \in 1..n |-> c]

\* { ...place, description }
WithDescription(place, d) ==
    [f \in DOMAIN place \cup {"description"} |-> IF f = "description" THEN d ELSE place[f]]

(***************************************************************************)
(* formatAddress, formatHours                                              *)
(***************************************************************************)
\* formatAddress without the `|| null` of line 422
formatAddressNoNull(location) ==
    IF ~Truthy(location) THEN NullV
    ELSE LET part(p) == IF Truthy(Prop(location, p)) THEN <<Prop(location, p).s>> ELSE <<>>
             parts == part("address") \o part("locality") \o part("region") \o part("postcode")
         IN  StrV(join(parts))

formatAddress(location) ==
    IF ~Truthy(location) THEN NullV
    ELSE LET part(p) == IF Truthy(Prop(location, p)) THEN <<Prop(location, p).s>> ELSE <<>>
             parts == part("address") \o part("locality") \o part("region") \o part("postcode")
             joined == StrV(join(parts))
         IN  IF Truthy(joined) THEN joined ELSE NullV

\* today is the weekday index (0 = Sunday) of new Date()
formatHours(hours, today) ==
    IF ~Truthy(hours) \/ ~Truthy(Prop(hours, "display")) THEN NullV
    ELSE LET regular == Prop(hours, "regular")
             hits == IF Truthy(regular)
                     THEN SelectSeq(regular.items, LAMBDA h : h.day = today)
                     ELSE <<>>
         IN  IF hits # <<>>
             THEN StrV(<<"Open ", hits[1].open, "-", hits[1].close>>)
             ELSE IF Truthy(Prop(hours, "open_now")) THEN StrV(<<"Open now">>)
             ELSE StrV(<<"Check hours">>)

\* place.distance ? `${Math.round(place.distance)} meters` : null
distanceText(place) ==
    IF Truthy(Prop(place, "distance"))
    THEN StrV(<<ToString(MathRound(place.distance.n)), " meters">>)
    ELSE NullV

\* the entry built from a successful detail response (lines 382-390)
DetailedPlace(place, detail, today) ==
    [t |-> "object",
     name |-> Prop(detail, "name"),
     address |-> formatAddress(Prop(detail, "location")),
     distance |-> distanceText(place),
     rating |-> IF Truthy(Prop(detail, "rating"))
                THEN StrV(<<ToString(detail.rating.n \div 10), "/10">>) ELSE NullV,
     price |-> IF Truthy(Prop(detail, "price"))
               THEN StrV(repeat("$", detail.price.n \div 10)) ELSE NullV,
     hours |-> formatHours(Prop(detail, "hours"), today),
     category |-> IF Truthy(Prop(detail, "categories")) /\ detail.categories.items # <<>>
                     /\ Truthy(Prop(detail.categories.items[1], "name"))
                  THEN detail.categories.items[1].name ELSE NullV]

\* the entry built from the search result alone (lines 392-396 and 399-403)
CoarsePlace(place) ==
    [t |-> "object",
     name |-> Prop(place, "name"),
     address |-> formatAddress(Prop(place, "location")),
     distance |-> distanceText(place)]

(***************************************************************************)
(* Provider texts: a text is a tuple of tokens. "[", "]" and "," are the   *)
(* JSON punctuation, "x" is a character of prose, and an object token      *)
(* stands for the JSON text of one object.                                 *)
(***************************************************************************)
ObjectTokens == {"oA", "oN"}
Alphabet == {"[", "]", ",", "x"} \cup ObjectTokens
FlowAlphabet == {"[", "]"} \cup ObjectTokens

ObjectOf(tok) ==
    CASE tok = "oA" -> [t |-> "object", name |-> StrV(<<"a">>),
                        description |-> StrV(<<"Bold roasts.">>)]
      [] tok = "oN" -> [t |-> "object", description |-> StrV(<<"No name.">>)]

TextsOver(alphabet, n) == UNION {[1..k -> alphabet] : k \in 0..n}

ParseFail == [ok |-> FALSE]

\* JSON.parse, by recursive descent: one value starting at token i
RECURSIVE ParseValue(_, _)
RECURSIVE ParseElements(_, _, _, _)
ParseValue(toks, i) ==
    IF i > Len(toks) THEN ParseFail
    ELSE IF toks[i] \in ObjectTokens
         THEN [ok |-> TRUE, val |-> ObjectOf(toks[i]), next |-> i + 1]
    ELSE IF toks[i] = "[" THEN ParseElements(toks, i + 1, <<>>, TRUE)
    ELSE ParseFail

\* the elements of an array after "[" (first) or after ","
ParseElements(toks, i, acc, first) ==
    IF i > Len(toks) THEN ParseFail
    ELSE IF toks[i] = "]"
         THEN IF first THEN [ok |-> TRUE, val |-> ArrV(acc), next |-> i + 1] ELSE ParseFail
    ELSE LET r == ParseValue(toks, i)
         IN  IF ~r.ok \/ r.next > Len(toks) THEN ParseFail
             ELSE IF toks[r.next] = "]"
                  THEN [ok |-> TRUE, val |-> ArrV(Append(acc, r.val)), next |-> r.next + 1]
             ELSE IF toks[r.next] = ","
                  THEN ParseElements(toks, r.next + 1, Append(acc, r.val), FALSE)
             ELSE ParseFail

JSONparse(toks) ==
    LET r == ParseValue(toks, 1)
    IN  IF r.ok /\ r.next = Len(toks) + 1 THEN [ok |-> TRUE, val |-> r.val] ELSE ParseFail

\* RegexMatch with a lazy quantifier, /\[[\s\S]*?\]/: from the first "[" to the
\* first "]" after it
RegexMatchLazy(text) ==
    LET opens == {i \in 1..Len(text) : text[i] = "["}
    IN  IF opens = {} THEN [found |-> FALSE]
        ELSE LET first == CHOOSE i \in opens : \A j \in opens : i <= j
                 closes == {i \in first + 1..Len(text) : text[i] = "]"}
             IN  IF closes = {} THEN [found |-> FALSE]
                 ELSE [found |-> TRUE,
                       m |-> SubSeq(text, first,
                                    CHOOSE i \in closes : \A j \in closes : i <= j)]

\* text.match(/\[[\s\S]*\]/): from the first "[" to the last "]" after it
RegexMatch(text) ==
    LET opens == {i \in 1..Len(text) : text[i] = "["}
        closes == {i \in 1..Len(text) : text[i] = "]"}
    IN  IF opens # {} /\ closes # {}
        THEN LET first == CHOOSE i \in opens : \A j \in opens : i <= j
                 last == CHOOSE i \in closes : \A j \in closes : j <= i
             IN  IF first < last
                 THEN [found |-> TRUE, m |-> SubSeq(text, first, last)]
                 ELSE [found |-> FALSE]
        ELSE [found |-> FALSE]

(***************************************************************************)
(* What a fetch gives: an exception, or a response with a status and a     *)
(* body. A body is unparsable (response.json() rejects) or JSON data.      *)
(***************************************************************************)
NoFetch == [t |-> "none"]
Threw == [t |-> "throw"]
Resp(status, body) == [t |-> "response", status |-> status, body |-> body]
Unparsable == [t |-> "unparsable"]
Json(data) == [t |-> "json", data |-> data]
EmptyObject == [t |-> "object"]

\* response.ok
IsOk(r) == r.status \in 200..299

\* response.json() rejects, or reading a property of null throws
BodyThrows(r) == r.body.t = "unparsable" \/ r.body.data.t = "null"

\* data.candidates?.[0]?.content?.parts?.[0]?.text, the path flattened to one
\* property: undefined when any link of it is missing
CandidateText(data) == Prop(data, "text")

(***************************************************************************)
(* getGeminiRecommendations, from the completion of its fetch              *)
(***************************************************************************)
getGeminiRecommendations(mood, r) ==
    IF r.t = "throw" THEN getMockRecommendations(mood)            \* catch, line 630
    ELSE IF ~IsOk(r) THEN getMockRecommendations(mood)            \* line 612
    ELSE IF BodyThrows(r) THEN getMockRecommendations(mood)       \* catch, line 630
    ELSE LET text == CandidateText(r.body.data)
         IN  IF ~Truthy(text) THEN getMockRecommendations(mood)   \* line 619
             ELSE LET jsonMatch == RegexMatch(text.s)
                  IN  IF jsonMatch.found
                      THEN LET parsed == JSONparse(jsonMatch.m)
                           IN  IF parsed.ok THEN parsed.val       \* line 624
                               ELSE getMockRecommendations(mood)  \* catch, line 630
                      ELSE getMockRecommendations(mood)           \* line 627

(***************************************************************************)
(* enhanceWithGemini                                                       *)
(***************************************************************************)
\* places.map(place => ({...place, description: `A great ${mood} spot in ${location}.`}))
GreatSpotIn(places, mood, location) ==
    ArrV([i \in 1..Len(places) |->
            WithDescription(places[i], StrV(<<"A great ", mood, " spot in ", location, ".">>))])

\* PopularDestination with the spread of the place forgotten
PopularDestinationNamesOnly(places, mood) ==
    ArrV([i \in 1..Len(places) |->
            [t |-> "object", name |-> places[i].name,
             description |-> StrV(<<"A popular ", mood, " destination.">>)]])

\* places.map(place => ({...place, description: `A popular ${mood} destination.`}))
PopularDestination(places, mood) ==
    ArrV([i \in 1..Len(places) |->
            WithDescription(places[i], StrV(<<"A popular ", mood, " destination.">>))])

\* the predicate of descriptions.find throws when a name is not a string
NameThrows(d, place) == ~IsString(Prop(d, "name")) \/ ~IsString(Prop(place, "name"))

NameMatches(d, place) ==
    LET dn == toLowerCase(d.name.s)
        pn == toLowerCase(place.name.s)
    IN  dn = pn \/ includes(pn, dn) \/ includes(dn, pn)

\* descriptions.find(d => ...), from element i on: the first match wins
RECURSIVE find(_, _, _)
find(descriptions, place, i) ==
    IF i > Len(descriptions) THEN [t |-> "none"]
    ELSE IF NameThrows(descriptions[i], place) THEN [t |-> "throw"]
    ELSE IF NameMatches(descriptions[i], place) THEN [t |-> "found", d |-> descriptions[i]]
    ELSE find(descriptions, place, i + 1)

\* MergeOne spreading the provider's object over the place: { ...place, ...aiData }
MergeOneSpreadsAiData(place, aiData, mood) ==
    IF aiData.t = "found" /\ Truthy(Prop(aiData.d, "description"))
    THEN [f \in DOMAIN place \cup DOMAIN aiData.d |->
            IF f \in DOMAIN aiData.d THEN aiData.d[f] ELSE place[f]]
    ELSE WithDescription(place, StrV(<<"A great ", mood, " spot worth checking out.">>))

\* the description merged onto one place (lines 518-526)
MergeOne(place, aiData, mood) ==
    WithDescription(place,
        IF aiData.t = "found" /\ Truthy(Prop(aiData.d, "description"))
        THEN aiData.d.description
        ELSE StrV(<<"A great ", mood, " spot worth checking out.">>))

\* lines 517-527, or the catch of line 536 when a predicate throws
MergeDescriptions(places, descriptions, mood, location) ==
    IF \E i \in 1..Len(places) : find(descriptions, places[i], 1).t = "throw"
    THEN GreatSpotIn(places, mood, location)
    ELSE ArrV([i \in 1..Len(places) |->
                 MergeOne(places[i], find(descriptions, places[i], 1), mood)])

\* enhanceWithGemini falling back to the mock list when its fetch throws
enhanceWithGeminiFallsToMock(places, mood, location, r) ==
    IF r.t = "throw" THEN getMockRecommendations(mood)
    ELSE IF ~IsOk(r) THEN PopularDestination(places, mood)
    ELSE IF BodyThrows(r) THEN GreatSpotIn(places, mood, location)
    ELSE LET text == CandidateText(r.body.data)
             jsonMatch == RegexMatch(text.s)
         IN  IF Truthy(text) /\ jsonMatch.found
             THEN LET parsed == JSONparse(jsonMatch.m)
                  IN  IF parsed.ok
                      THEN MergeDescriptions(places, parsed.val.items, mood, location)
                      ELSE GreatSpotIn(places, mood, location)
             ELSE PopularDestination(places, mood)

\* enhanceWithGemini from the completion of its fetch
enhanceWithGemini(places, mood, location, r) ==
    IF r.t = "throw" THEN GreatSpotIn(places, mood, location)            \* catch, line 538
    ELSE IF ~IsOk(r) THEN PopularDestination(places, mood)               \* line 502
    ELSE IF BodyThrows(r) THEN GreatSpotIn(places, mood, location)       \* catch, line 538
    ELSE LET text == CandidateText(r.body.data)
             jsonMatch == RegexMatch(text.s)
         IN  IF Truthy(text) /\ jsonMatch.found
             THEN LET parsed == JSONparse(jsonMatch.m)
                  IN  IF parsed.ok
                      THEN MergeDescriptions(places, parsed.val.items, mood, location)
                      ELSE GreatSpotIn(places, mood, location)           \* catch, line 538
             ELSE PopularDestination(places, mood)                       \* line 531

(***************************************************************************)
(* The inputs: requests, environments and what the providers answer.       *)
(***************************************************************************)
MaxDetails == 3      \* places.slice(0, 3)

\* location and mood of a parsed body are strings; "" stands for a missing or
\* empty (falsy) field
FlowMoods == {"coffee", "pizza", "constructor"}
MalformedBody == [t |-> "malformed"]       \* JSON.parse(event.body) throws
NullBody == [t |-> "null"]                 \* JSON.parse gives null: destructuring throws
ObjectBody(location, mood) == [t |-> "object", location |-> location, mood |-> mood]

BodiesOver(moods) ==
    {MalformedBody, NullBody}
        \cup {ObjectBody(l, m) : l \in {"", "Seattle"}, m \in {""} \cup moods}

RequestsOver(moods) ==
    {[httpMethod |-> m, body |-> MalformedBody] : m \in {"OPTIONS", "GET"}}
        \cup {[httpMethod |-> "POST", body |-> b] : b \in BodiesOver(moods)}

Envs == [FOURSQUARE_API_KEY : BOOLEAN, GEMINI_API_KEY : BOOLEAN]

\* two search results and the detail the provider holds for each
P1 == [t |-> "object", fsq_id |-> "p1", name |-> StrV(<<"A", "b">>),
       location |-> [t |-> "object", address |-> StrV(<<"1">>), locality |-> StrV(<<"S">>)],
       distance |-> NumV(1205)]
P2 == [t |-> "object", fsq_id |-> "p2", name |-> StrV(<<"Z">>)]
SearchItems == {P1, P2, NullV}

DetailOf(place) ==
    [t |-> "object", name |-> StrV(place.name.s \o <<"c">>),
     location |-> [t |-> "object", address |-> StrV(<<"9">>), region |-> StrV(<<"W">>),
                   postcode |-> StrV(<<"8">>)],
     rating |-> NumV(80),
     hours |-> [t |-> "object", display |-> StrV(<<"Mon-Fri">>), open_now |-> BoolV(TRUE),
                regular |-> ArrV(<<[day |-> 1, open |-> "0900", close |-> "1700"]>>)],
     categories |-> ArrV(<<[t |-> "object", name |-> StrV(<<"Cafe">>)]>>)]

\* a detail whose name is the JSON object {"toString": 1}
NoPrimitive == [t |-> "object", toString |-> [t |-> "number", n |-> 10]]
UnnamedDetail == [t |-> "object", name |-> NoPrimitive]

WeekDays == {1}      \* the weekday of the invocation

ResultLists == UNION {[1..k -> SearchItems] : k \in 0..MaxResults}

SearchOutcomes ==
    {Threw, Resp(429, Unparsable), Resp(402, Unparsable), Resp(500, Unparsable),
     Resp(200, Unparsable), Resp(200, Json(NullV)), Resp(200, Json(EmptyObject))}
        \cup {Resp(200, Json([t |-> "object", results |-> ArrV(l)])) : l \in ResultLists}

DetailOutcomes(place) ==
    {Threw, Resp(404, Unparsable), Resp(200, Unparsable), Resp(200, Json(DetailOf(place))),
     Resp(200, Json(UnnamedDetail))}

TextResponse(toks) == Resp(200, Json([t |-> "object", text |-> StrV(toks)]))

GeminiOutcomes(texts) ==
    {Threw, Resp(503, Unparsable), Resp(200, Unparsable), Resp(200, Json(NullV)),
     Resp(200, Json(EmptyObject))}
        \cup {TextResponse(toks) : toks \in texts}

FlowTexts == TextsOver(FlowAlphabet, MaxTextLen)
ParseTexts == TextsOver(Alphabet, MaxParseLen)

(***************************************************************************)
(* Responses                                                               *)
(***************************************************************************)
NoResponse == [statusCode |-> 0]
NoResult == [t |-> "none"]

CorsHeaders ==
    [AccessControlAllowOrigin |-> "*", AccessControlAllowHeaders |-> "Content-Type",
     AccessControlAllowMethods |-> "POST, OPTIONS", ContentType |-> "application/json"]

ErrorResponse(status, text) ==
    [statusCode |-> status, headers |-> CorsHeaders, body |-> [t |-> "json", error |-> text]]

\* JSON.stringify({recommendations, source, rateLimitReached, message}): a property
\* whose value is a function is left out
StringifyEnvelope(recs, src, rl, message) ==
    IF recs.t = "function"
    THEN [t |-> "json", source |-> src, rateLimitReached |-> rl, message |-> message]
    ELSE [t |-> "json", recommendations |-> recs, source |-> src,
          rateLimitReached |-> rl, message |-> message]

\* lines 294-305
Envelope(recs, src, rl) ==
    [statusCode |-> 200, headers |-> CorsHeaders,
     body |-> StringifyEnvelope(recs, src, rl,
                IF rl THEN StrV(<<"Live data temporarily unavailable. Showing AI-generated recommendations.">>)
                ELSE NullV)]

(***************************************************************************)
(* The state machine. An action is one job of the event loop: the code     *)
(* from one completed await to the next await or return.                   *)
(***************************************************************************)
NoCalls == [search |-> 0, detail |-> 0, gemini |-> 0, generate |-> 0, enhance |-> 0]

InitWith(requests, envs) ==
    /\ event \in requests
    /\ env \in envs
    /\ pc = "start"
    /\ source = "foursquare"
    /\ rateLimitReached = FALSE
    /\ foursquareResult = NoResult
    /\ recommendations = UndefV
    /\ response = NoResponse
    /\ lpc = "idle"
    /\ searchResponse = NoFetch
    /\ slots = <<>>
    /\ enhanceInput = <<>>
    /\ geminiResponse = NoFetch
    /\ calls = NoCalls

lookupVars == <<lpc, searchResponse, slots>>
handlerVars == <<pc, source, rateLimitReached, foursquareResult, recommendations, response,
                 enhanceInput,
                 geminiResponse, calls>>

\* the handler returns without calling anything
Return(resp) ==
    /\ pc' = "done"
    /\ response' = resp
    /\ UNCHANGED <<env, event, source, rateLimitReached, foursquareResult, recommendations,
                   lookupVars, enhanceInput, geminiResponse, calls>>

ValidPost ==
    /\ pc = "start"
    /\ event.httpMethod = "POST"
    /\ event.body.t = "object"
    /\ event.body.location # ""
    /\ event.body.mood # ""

\* lines 243-245
HandleOptions ==
    /\ pc = "start"
    /\ event.httpMethod = "OPTIONS"
    /\ Return([statusCode |-> 200, headers |-> CorsHeaders, body |-> [t |-> "empty"]])

\* lines 248-254
HandleMethodNotAllowed ==
    /\ pc = "start"
    /\ event.httpMethod \notin {"OPTIONS", "POST"}
    /\ Return(ErrorResponse(405, "Method not allowed"))

\* line 257 throws: lines 307-314
HandleParseError ==
    /\ pc = "start"
    /\ event.httpMethod = "POST"
    /\ event.body.t \in {"malformed", "null"}
    /\ Return(ErrorResponse(500, "Failed to get recommendations"))

\* HandleMissingFields answering as the catch of lines 307-314 does
HandleMissingFieldsAsFailure ==
    /\ pc = "start"
    /\ event.httpMethod = "POST"
    /\ event.body.t = "object"
    /\ event.body.location = "" \/ event.body.mood = ""
    /\ Return(ErrorResponse(500, "Failed to get recommendations"))

\* lines 259-265
HandleMissingFields ==
    /\ pc = "start"
    /\ event.httpMethod = "POST"
    /\ event.body.t = "object"
    /\ event.body.location = "" \/ event.body.mood = ""
    /\ Return(ErrorResponse(400, "Location and mood are required"))

\* the handler calls getGeminiRecommendations with source = src and
\* rateLimitReached = rl (lines 279, 286, 291): without a credential the mock
\* comes back at once and the handler returns, else the fetch is issued; c is the
\* calls made so far
CallGenerate(src, rl, c) ==
    /\ source' = src
    /\ rateLimitReached' = rl
    /\ UNCHANGED <<enhanceInput, geminiResponse>>
    /\ IF ~env.GEMINI_API_KEY
       THEN /\ pc' = "done"
            /\ recommendations' = getMockRecommendations(event.body.mood)
            /\ response' = Envelope(recommendations', src, rl)
            /\ calls' = [c EXCEPT !.generate = @ + 1]
       ELSE /\ pc' = "awaitGenerate"
            /\ UNCHANGED <<recommendations, response>>
            /\ calls' = [c EXCEPT !.generate = @ + 1, !.gemini = @ + 1]

\* line 461, outside the try of enhanceWithGemini:
\* places.map(p => `- ${p.name} (${p.category || 'restaurant'})`)
PromptThrows(places) ==
    \E i \in 1..Len(places) :
        \/ ToStringThrows(Prop(places[i], "name"))
        \/ Truthy(Prop(places[i], "category")) /\ ToStringThrows(places[i].category)

\* the handler calls enhanceWithGemini (line 282); an exception of its prompt
\* construction reaches the catch of the handler (lines 307-314)
CallEnhance(places, c) ==
    /\ enhanceInput' = places
    /\ UNCHANGED <<source, rateLimitReached, geminiResponse>>
    /\ IF ~env.GEMINI_API_KEY
       THEN /\ pc' = "done"
            /\ recommendations' = GreatSpotIn(places, event.body.mood, event.body.location)
            /\ response' = Envelope(recommendations', source, rateLimitReached)
            /\ calls' = [c EXCEPT !.enhance = @ + 1]
       ELSE IF PromptThrows(places)
       THEN /\ pc' = "done"
            /\ response' = ErrorResponse(500, "Failed to get recommendations")
            /\ UNCHANGED recommendations
            /\ calls' = [c EXCEPT !.enhance = @ + 1]
       ELSE /\ pc' = "awaitEnhance"
            /\ UNCHANGED <<recommendations, response>>
            /\ calls' = [c EXCEPT !.enhance = @ + 1, !.gemini = @ + 1]

\* HandleNoFoursquareKey with the assignment of line 290 forgotten
HandleNoFoursquareKeyKeepsSource ==
    /\ ValidPost
    /\ ~env.FOURSQUARE_API_KEY
    /\ CallGenerate(source, FALSE, calls)
    /\ UNCHANGED <<env, event, foursquareResult, lookupVars>>

\* lines 288-292
HandleNoFoursquareKey ==
    /\ ValidPost
    /\ ~env.FOURSQUARE_API_KEY
    /\ CallGenerate("ai", FALSE, calls)
    /\ UNCHANGED <<env, event, foursquareResult, lookupVars>>

\* lines 272-273 and 339-349: the search request is issued
HandleCallLookup ==
    /\ ValidPost
    /\ env.FOURSQUARE_API_KEY
    /\ pc' = "awaitLookup"
    /\ lpc' = "search"
    /\ calls' = [calls EXCEPT !.search = @ + 1]
    /\ UNCHANGED <<env, event, source, rateLimitReached, foursquareResult, recommendations,
                   response, searchResponse, slots, enhanceInput, geminiResponse>>

\* LookupReturns with the assignment of line 277 forgotten
LookupReturnsNoFlag(result, c) ==
    /\ lpc' = "returned"
    /\ searchResponse' = NoFetch
    /\ foursquareResult' = result
    /\ IF result.rateLimited THEN CallGenerate("ai", FALSE, c)
       ELSE IF Len(result.places) > 0 THEN CallEnhance(result.places, c)
       ELSE CallGenerate("ai", FALSE, c)
    /\ UNCHANGED <<env, event>>

\* LookupReturns with the assignment of line 285 forgotten
LookupReturnsKeepsSource(result, c) ==
    /\ lpc' = "returned"
    /\ searchResponse' = NoFetch
    /\ foursquareResult' = result
    /\ IF result.rateLimited THEN CallGenerate("ai", TRUE, c)
       ELSE IF Len(result.places) > 0 THEN CallEnhance(result.places, c)
       ELSE CallGenerate(source, FALSE, c)
    /\ UNCHANGED <<env, event>>

\* getPlacesFromFoursquare returns `result`; the handler goes on from line 275
LookupReturns(result, c) ==
    /\ lpc' = "returned"
    /\ searchResponse' = NoFetch
    /\ foursquareResult' = result
    /\ IF result.rateLimited THEN CallGenerate("ai", TRUE, c)
       ELSE IF Len(result.places) > 0 THEN CallEnhance(result.places, c)
       ELSE CallGenerate("ai", FALSE, c)
    /\ UNCHANGED <<env, event>>

EmptyResult(rl) == [places |-> <<>>, rateLimited |-> rl]

\* the search fetch completes
SearchCompletes(r) ==
    /\ lpc = "search"
    /\ lpc' = "searched"
    /\ searchResponse' = r
    /\ UNCHANGED <<env, event, slots, handlerVars>>

Min(a, b) == IF a <= b THEN a ELSE b

\* searchData.results || []
ResultsOf(data) == IF Truthy(Prop(data, "results")) THEN data.results.items ELSE <<>>

\* the promise each mapped closure gives before the first completion: a null
\* place throws at place.fsq_id and again in the catch, so its promise is
\* rejected; otherwise the detail request is issued
FanOut(places) ==
    [i \in 1..Min(Len(places), MaxDetails) |->
        IF places[i] = NullV THEN [st |-> "rejected"] ELSE [st |-> "pending"]]

Pending(ss) == {i \in 1..Len(ss) : ss[i].st = "pending"}

\* LookupAfterSearch that takes only 429 for a rate limit (402 forgotten)
LookupAfterSearchOnly429 ==
    /\ lpc = "searched"
    /\ LET r == searchResponse
       IN  IF r.t = "throw"
           THEN LookupReturns(EmptyResult(FALSE), calls) /\ slots' = slots
           ELSE IF r.status = 429
           THEN LookupReturns(EmptyResult(TRUE), calls) /\ slots' = slots
           ELSE IF ~IsOk(r)
           THEN LookupReturns(EmptyResult(FALSE), calls) /\ slots' = slots
           ELSE IF BodyThrows(r)
           THEN LookupReturns(EmptyResult(FALSE), calls) /\ slots' = slots
           ELSE LET fan == FanOut(ResultsOf(r.body.data))
                IN  IF fan = <<>> \/ \E i \in 1..Len(fan) : fan[i].st = "rejected"
                    THEN /\ slots' = fan
                         /\ LookupReturns(EmptyResult(FALSE),
                                [calls EXCEPT !.detail = @ + Cardinality(Pending(fan))])
                    ELSE /\ slots' = fan
                         /\ lpc' = "details"
                         /\ calls' = [calls EXCEPT !.detail = @ + Len(fan)]
                         /\ UNCHANGED <<env, event, searchResponse, pc, source,
                                        rateLimitReached, foursquareResult, recommendations,
                                        response, enhanceInput, geminiResponse>>

\* lines 352-367, after the search fetch
LookupAfterSearch ==
    /\ lpc = "searched"
    /\ LET r == searchResponse
       IN  IF r.t = "throw"
           THEN LookupReturns(EmptyResult(FALSE), calls) /\ slots' = slots      \* catch, line 411
           ELSE IF r.status \in {429, 402}
           THEN LookupReturns(EmptyResult(TRUE), calls) /\ slots' = slots       \* line 354
           ELSE IF ~IsOk(r)
           THEN LookupReturns(EmptyResult(FALSE), calls) /\ slots' = slots      \* line 360
           ELSE IF BodyThrows(r)
           THEN LookupReturns(EmptyResult(FALSE), calls) /\ slots' = slots      \* catch, line 411
           ELSE LET fan == FanOut(ResultsOf(r.body.data))
                IN  IF fan = <<>> \/ \E i \in 1..Len(fan) : fan[i].st = "rejected"
                    THEN \* Promise.all of nothing, or Promise.all rejects: line 408 or 411
                         /\ slots' = fan
                         /\ LookupReturns(EmptyResult(FALSE),
                                [calls EXCEPT !.detail = @ + Cardinality(Pending(fan))])
                    ELSE /\ slots' = fan
                         /\ lpc' = "details"
                         /\ calls' = [calls EXCEPT !.detail = @ + Len(fan)]
                         /\ UNCHANGED <<env, event, searchResponse, pc, source,
                                        rateLimitReached, foursquareResult, recommendations,
                                        response, enhanceInput, geminiResponse>>

\* lines 380-403: the entry a detail fetch gives for its place
DetailEntry(place, r, today) ==
    IF r.t = "throw" THEN CoarsePlace(place)                         \* catch, line 399
    ELSE IF ~IsOk(r) THEN CoarsePlace(place)                         \* line 392
    ELSE IF BodyThrows(r) THEN CoarsePlace(place)                    \* catch, line 399
    ELSE DetailedPlace(place, r.body.data, today)                    \* line 382

\* the detail fetch of slot i completes while Promise.all is awaited
DetailCompletes(i, r, today) ==
    /\ lpc = "details"
    /\ i \in Pending(slots)
    /\ slots' = [slots EXCEPT ![i] =
                    [st |-> "fulfilled", fetched |-> r,
                     value |-> DetailEntry(ResultsOf(searchResponse.body.data)[i], r, today)]]
    /\ UNCHANGED <<env, event, lpc, searchResponse, handlerVars>>

\* lines 367 and 408: Promise.all resolves with the entries in the order of the
\* mapped array, whatever order the fetches completed in
LookupJoin ==
    /\ lpc = "details"
    /\ Pending(slots) = {}
    /\ slots' = <<>>
    /\ LookupReturns(
          [places |-> SelectSeq([i \in 1..Len(slots) |-> slots[i].value],
                                LAMBDA p : p # NullV),
           rateLimited |-> FALSE], calls)

\* a detail fetch completes after Promise.all rejected: nothing reads its result
DetailCompletesLate(i) ==
    /\ lpc = "returned"
    /\ i \in Pending(slots)
    /\ slots' = [slots EXCEPT ![i] = [st |-> "late"]]
    /\ UNCHANGED <<env, event, lpc, searchResponse, handlerVars>>

\* the fetch of getGeminiRecommendations completes; the handler returns
GenerateCompletes(r) ==
    /\ pc = "awaitGenerate"
    /\ geminiResponse' = r
    /\ pc' = "done"
    /\ recommendations' = getGeminiRecommendations(event.body.mood, r)
    /\ response' = Envelope(recommendations', source, rateLimitReached)
    /\ UNCHANGED <<env, event, source, rateLimitReached, foursquareResult, lookupVars,
                   enhanceInput, calls>>

\* the fetch of enhanceWithGemini completes; the handler returns
EnhanceCompletes(r) ==
    /\ pc = "awaitEnhance"
    /\ geminiResponse' = r
    /\ pc' = "done"
    /\ recommendations' = enhanceWithGemini(enhanceInput, event.body.mood,
                                            event.body.location, r)
    /\ response' = Envelope(recommendations', source, rateLimitReached)
    /\ UNCHANGED <<env, event, source, rateLimitReached, foursquareResult, lookupVars,
                   enhanceInput, calls>>

Gate == HandleOptions \/ HandleMethodNotAllowed \/ HandleParseError \/ HandleMissingFields

Lookup ==
    \/ HandleCallLookup
    \/ lpc = "search" /\ \E r \in SearchOutcomes : SearchCompletes(r)
    \/ LookupAfterSearch
    \/ \E i \in 1..MaxDetails : \E today \in WeekDays :
          /\ i \in Pending(slots)
          /\ lpc = "details"
          /\ \E r \in DetailOutcomes(ResultsOf(searchResponse.body.data)[i]) :
                DetailCompletes(i, r, today)
    \/ LookupJoin
    \/ \E i \in 1..MaxDetails : DetailCompletesLate(i)

Init == InitWith(RequestsOver(FlowMoods), Envs)

Next ==
    \/ Gate
    \/ HandleNoFoursquareKey
    \/ Lookup
    \/ pc = "awaitGenerate" /\ \E r \in GeminiOutcomes(FlowTexts) : GenerateCompletes(r)
    \/ pc = "awaitEnhance" /\ \E r \in GeminiOutcomes(FlowTexts) : EnhanceCompletes(r)

\* the parsing of provider texts: getGeminiRecommendations alone, with a
\* credential, on every text of up to MaxParseLen tokens
ParseRequests == {[httpMethod |-> "POST", body |-> ObjectBody("Seattle", m)] : m \in FlowMoods}
InitParse ==
    InitWith(ParseRequests, {[FOURSQUARE_API_KEY |-> FALSE, GEMINI_API_KEY |-> TRUE]})
NextParse ==
    \/ HandleNoFoursquareKey
    \/ pc = "awaitGenerate" /\ \E toks \in ParseTexts : GenerateCompletes(TextResponse(toks))
SpecParse == InitParse /\ [][NextParse]_vars

\* the mock table: getGeminiRecommendations alone, on the supported moods and on
\* other mood strings, without a credential or with a provider that gives no list
OtherMoods == {"pizza", "Coffee", "breakfast"} \cup ObjectPrototypeKeys
MockRequests ==
    {[httpMethod |-> "POST", body |-> ObjectBody("Seattle", m)] :
        m \in SupportedMoods \cup OtherMoods}
InitMock ==
    InitWith(MockRequests, [FOURSQUARE_API_KEY : {FALSE}, GEMINI_API_KEY : BOOLEAN])
NextMock ==
    \/ HandleNoFoursquareKey
    \/ pc = "awaitGenerate" /\ \E r \in GeminiOutcomes({<<>>, <<"x">>}) : GenerateCompletes(r)
SpecMock == InitMock /\ [][NextMock]_vars

\* formatAddress: the lookup of one place, on every location whose four fields
\* are each absent, empty or a text, and on a null and an absent location;
\* the detail fetch fails (the address comes from the search result) or
\* succeeds (it comes from the detail)
AddressFields == <<"address", "locality", "region", "postcode">>
FieldValues(f) == {UndefV, StrV(<<>>), StrV(<<f>>)}
Locations ==
    {NullV, UndefV}
        \cup {[t |-> "object", address |-> a, locality |-> l, region |-> r, postcode |-> c] :
                a \in FieldValues("1 Main St"), l \in FieldValues("Seattle"),
                r \in FieldValues("WA"), c \in FieldValues("98101")}
AddressPlace(l) == [t |-> "object", fsq_id |-> "p1", name |-> StrV(<<"A">>), location |-> l]
AddressSearches ==
    {Resp(200, Json([t |-> "object", results |-> ArrV(<<AddressPlace(l)>>)])) : l \in Locations}
AddressDetails(place) ==
    {Threw, Resp(200, Json([t |-> "object", name |-> place.name, location |-> place.location]))}
InitAddress ==
    InitWith({[httpMethod |-> "POST", body |-> ObjectBody("Seattle", "coffee")]},
             {[FOURSQUARE_API_KEY |-> TRUE, GEMINI_API_KEY |-> FALSE]})
NextAddress ==
    \/ HandleCallLookup
    \/ lpc = "search" /\ \E r \in AddressSearches : SearchCompletes(r)
    \/ LookupAfterSearch
    \/ /\ lpc = "details"
       /\ \E r \in AddressDetails(ResultsOf(searchResponse.body.data)[1]) :
             \E today \in WeekDays : DetailCompletes(1, r, today)
    \/ LookupJoin
SpecAddress == InitAddress /\ [][NextAddress]_vars

Spec == Init /\ [][Next]_vars

(***************************************************************************)
(* Properties                                                              *)
(***************************************************************************)
Mood == event.body.mood
Location == event.body.location
Answered == pc = "done"
LookupReturned == foursquareResult # NoResult
TextGenerationAnswered == geminiResponse # NoFetch

\* a POST whose body has a location and a mood
ValidRequest ==
    /\ event.httpMethod = "POST"
    /\ event.body.t = "object"
    /\ event.body.location # ""
    /\ event.body.mood # ""

\* C1: for a POST with location and mood and no FOURSQUARE_API_KEY, no search
\* and no detail request is ever issued, the lookup is never entered, and the
\* response is a 200 envelope whose source is "ai", whatever the
\* text-generation provider answered.
C1_NoPlacesKeyMeansAi ==
    (ValidRequest /\ ~env.FOURSQUARE_API_KEY) =>
        /\ calls.search = 0
        /\ calls.detail = 0
        /\ lpc = "idle"
        /\ foursquareResult = NoResult
        /\ Answered => response.statusCode = 200 /\ response.body.source = "ai"

\* C1's case: no places key, the text-generation provider answered with a text
\* that parsed, and the handler responded
C1_Witness ==
    /\ ValidRequest
    /\ ~env.FOURSQUARE_API_KEY
    /\ Answered
    /\ geminiResponse = TextResponse(<<"[", "oA", "]">>)
    /\ response.body.source = "ai"

\* C2: once the lookup has returned rateLimited = true, getGeminiRecommendations
\* has been called once and enhanceWithGemini never, and the response is a 200
\* envelope with rateLimitReached = true, source = "ai" and a message that is
\* not null, whatever the text-generation provider answered.
C2_RateLimitedMeansAiWithMessage ==
    (LookupReturned /\ foursquareResult.rateLimited) =>
        /\ calls.generate = 1
        /\ calls.enhance = 0
        /\ pc \in {"awaitGenerate", "done"}
        /\ Answered =>
              /\ response.statusCode = 200
              /\ response.body.rateLimitReached = TRUE
              /\ response.body.source = "ai"
              /\ response.body.message # NullV

\* C2's case: the lookup was rate limited, the text-generation provider failed
\* and the handler responded
C2_Witness ==
    /\ LookupReturned
    /\ foursquareResult.rateLimited
    /\ Answered
    /\ geminiResponse = Resp(503, Unparsable)
    /\ response.body.rateLimitReached

NamesOf(places) == {places[i].name : i \in 1..Len(places)}

\* C3: once the lookup has returned a non-empty list (not rate limited), that
\* list is what enhanceWithGemini was given, and the envelope of the response
\* has source "foursquare" and recommendations that each carry the name of one
\* of those places, whatever the text-generation provider answered.
C3_EnhancedNamesAreCandidates ==
    (LookupReturned /\ ~foursquareResult.rateLimited /\ Len(foursquareResult.places) > 0) =>
        /\ enhanceInput = foursquareResult.places
        /\ calls.enhance = 1
        /\ (Answered /\ response.statusCode = 200) =>
              /\ response.body.source = "foursquare"
              /\ response.body.recommendations.t = "array"
              /\ \A i \in 1..Len(response.body.recommendations.items) :
                    response.body.recommendations.items[i].name \in NamesOf(enhanceInput)

\* C3's case: the provider described a place under another spelling of its name
\* ("a" for "Ab") and the description was merged onto it
C3_Witness ==
    /\ LookupReturned
    /\ Answered
    /\ geminiResponse = TextResponse(<<"[", "oA", "]">>)
    /\ Len(enhanceInput) = 2
    /\ enhanceInput[1].name = StrV(<<"A", "b">>)
    /\ response.body.source = "foursquare"
    /\ response.body.recommendations.items[1].description = StrV(<<"Bold roasts.">>)
    /\ response.body.recommendations.items[2].description
          = StrV(<<"A great ", Mood, " spot worth checking out.">>)

\* what the claims call the mock table entry of a mood: its list, and the
\* quick-bite list for a mood that is not one of the six
MockListFor(mood) ==
    IF mood \in SupportedMoods THEN mockData[mood] ELSE mockData["quick-bite"]

IsNonEmptyList(v) == v.t = "array" /\ Len(v.items) > 0

\* C4 (as claimed, for the moods that have no namesake in Object.prototype, which
\* C8 covers): every 200 response of a POST carries a non-empty list of
\* recommendations, whatever the credentials, the lookup and the text-generation
\* provider gave, a provider text "[]" included.
C4_RecommendationsNeverEmpty ==
    (ValidRequest /\ Answered /\ response.statusCode = 200 /\ Mood \notin ObjectPrototypeKeys) =>
        /\ "recommendations" \in DOMAIN response.body
        /\ IsNonEmptyList(response.body.recommendations)

\* C5 (as claimed): without GEMINI_API_KEY no text-generation request is issued;
\* getGeminiRecommendations returns the mock list of the mood; enhanceWithGemini
\* returns the input places, same length and order, each with the generic
\* description; and with neither credential the response is 200, source "ai",
\* the 2-entry mock list of the mood, and no outbound request at all.
C5_NoTextKeyIsDeterministic ==
    (ValidRequest /\ ~env.GEMINI_API_KEY) =>
        /\ calls.gemini = 0
        /\ (Answered /\ calls.generate = 1) => recommendations = MockListFor(Mood)
        /\ (Answered /\ calls.enhance = 1) =>
              /\ recommendations.t = "array"
              /\ Len(recommendations.items) = Len(enhanceInput)
              /\ \A i \in 1..Len(enhanceInput) :
                    recommendations.items[i]
                      = WithDescription(enhanceInput[i],
                                        StrV(<<"A great ", Mood, " spot in ", Location, ".">>))
        /\ (Answered /\ ~env.FOURSQUARE_API_KEY) =>
              /\ response.statusCode = 200
              /\ response.body.source = "ai"
              /\ "recommendations" \in DOMAIN response.body
              /\ response.body.recommendations = MockListFor(Mood)
              /\ Len(response.body.recommendations.items) = 2
              /\ calls.search = 0 /\ calls.detail = 0 /\ calls.gemini = 0

\* C8 (as claimed): getMockRecommendations gives a list of at least 2
\* recommendations for each of the six supported moods, and the quick-bite list
\* for every other mood string.
C8_MockTable ==
    Answered =>
        /\ recommendations.t = "array"
        /\ Len(recommendations.items) >= 2
        /\ recommendations = MockListFor(Mood)

(***************************************************************************)
(* The failures of the text-generation call that C6 lists.                 *)
(***************************************************************************)
NetworkException(r) == r.t = "throw"
NonSuccess(r) == r.t = "response" /\ ~IsOk(r)
HasData(r) == r.t = "response" /\ IsOk(r) /\ ~BodyThrows(r)
MissingText(r) == HasData(r) /\ ~Truthy(CandidateText(r.body.data))
HasText(r) == HasData(r) /\ Truthy(CandidateText(r.body.data))
TextOf(r) == CandidateText(r.body.data).s
NoBracketMatch(r) == HasText(r) /\ ~RegexMatch(TextOf(r)).found
MalformedJson(r) ==
    /\ HasText(r)
    /\ RegexMatch(TextOf(r)).found
    /\ ~JSONparse(RegexMatch(TextOf(r)).m).ok
ListedFailure(r) ==
    \/ NetworkException(r) \/ NonSuccess(r) \/ MissingText(r)
    \/ NoBracketMatch(r) \/ MalformedJson(r)

\* what the entry point that was called returns without a credential
NoCredentialOutput ==
    IF calls.enhance = 1 THEN GreatSpotIn(enhanceInput, Mood, Location)
    ELSE getMockRecommendations(Mood)

\* C6 as claimed: after each listed failure the entry point returns what it
\* returns without a credential.
C6_FailuresEqualNoCredential ==
    (Answered /\ TextGenerationAnswered /\ ListedFailure(geminiResponse)) =>
        /\ response.statusCode = 200
        /\ recommendations = NoCredentialOutput

\* C6 as amended: after each listed failure the handler answers 200 (nothing is
\* thrown); getGeminiRecommendations returns its no-credential output, the mock
\* lookup of the mood; enhanceWithGemini returns the input places in their
\* order, each with its own fields and a templated description, which is the
\* no-credential one after a network exception or malformed JSON and
\* "A popular {mood} destination." after a non-success status, a missing text
\* or no bracket match.
C6_FailuresFallBack ==
    (Answered /\ TextGenerationAnswered /\ ListedFailure(geminiResponse)) =>
        /\ response.statusCode = 200
        /\ calls.generate = 1 => recommendations = getMockRecommendations(Mood)
        /\ calls.enhance = 1 =>
              /\ recommendations.t = "array"
              /\ Len(recommendations.items) = Len(enhanceInput)
              /\ \A i \in 1..Len(enhanceInput) :
                    recommendations.items[i]
                      = WithDescription(enhanceInput[i], recommendations.items[i].description)
              /\ (NetworkException(geminiResponse) \/ MalformedJson(geminiResponse))
                    => recommendations = GreatSpotIn(enhanceInput, Mood, Location)
              /\ (NonSuccess(geminiResponse) \/ MissingText(geminiResponse)
                    \/ NoBracketMatch(geminiResponse))
                    => \A i \in 1..Len(enhanceInput) :
                          recommendations.items[i].description
                            = StrV(<<"A popular ", Mood, " destination.">>)

\* C6's case: enhanceWithGemini got a non-success status for three places and
\* returned them with the description that differs from the no-credential one
C6_Witness ==
    /\ Answered
    /\ calls.enhance = 1
    /\ NonSuccess(geminiResponse)
    /\ Len(enhanceInput) = 3
    /\ recommendations = PopularDestination(enhanceInput, Mood)
    /\ recommendations # NoCredentialOutput

(***************************************************************************)
(* C7: the parsing of the provider text by getGeminiRecommendations        *)
(***************************************************************************)
WellFormedArrayAt(text, i, j) == text[i] = "[" /\ JSONparse(SubSeq(text, i, j)).ok
ArraysIn(text) ==
    {ij \in (1..Len(text)) \X (1..Len(text)) :
        ij[1] < ij[2] /\ WellFormedArrayAt(text, ij[1], ij[2])}
NoBracketPair(text) ==
    ~\E i, j \in 1..Len(text) : i < j /\ text[i] = "[" /\ text[j] = "]"
\* the tokens from the first "[" to the last "]" are not valid JSON
InvalidBetweenBrackets(text) ==
    \E i, j \in 1..Len(text) :
        /\ i < j /\ text[i] = "[" /\ text[j] = "]"
        /\ \A k \in 1..(i - 1) : text[k] # "["
        /\ \A k \in (j + 1)..Len(text) : text[k] # "]"
        /\ ~JSONparse(SubSeq(text, i, j)).ok
GaveText == TextGenerationAnswered /\ HasData(geminiResponse)
               /\ "text" \in DOMAIN geminiResponse.body.data

\* C7 as claimed: a text that contains exactly one well-formed JSON array, with
\* any prose around it, gives that array; a text with no bracket pair, or with
\* invalid JSON between its first "[" and its last "]", gives the mock lookup of
\* the mood.
C7_ExactlyOneArrayIsReturned ==
    (Answered /\ GaveText) =>
        LET text == TextOf(geminiResponse)
        IN  /\ Cardinality(ArraysIn(text)) = 1 =>
                  \A ij \in ArraysIn(text) :
                      recommendations = JSONparse(SubSeq(text, ij[1], ij[2])).val
            /\ (NoBracketPair(text) \/ InvalidBetweenBrackets(text)) =>
                  recommendations = getMockRecommendations(Mood)

\* C7 as amended: a text made of prose without "[", then a well-formed JSON
\* array, then prose without "]", gives that array; a text with no bracket
\* pair, or with invalid JSON between its first "[" and its last "]", gives the
\* mock lookup of the mood.
C7_ArrayBetweenOuterBrackets ==
    (Answered /\ GaveText) =>
        LET text == TextOf(geminiResponse)
        IN  /\ \A ij \in ArraysIn(text) :
                  (/\ \A k \in 1..(ij[1] - 1) : text[k] # "["
                   /\ \A k \in (ij[2] + 1)..Len(text) : text[k] # "]")
                  => recommendations = JSONparse(SubSeq(text, ij[1], ij[2])).val
            /\ (NoBracketPair(text) \/ InvalidBetweenBrackets(text)) =>
                  recommendations = getMockRecommendations(Mood)

\* C7's case: an array of an array between two stretches of prose was returned
C7_Witness ==
    /\ Answered
    /\ geminiResponse = TextResponse(<<"x", "[", "oA", "]", "x">>)
    /\ recommendations = ArrV(<<ObjectOf("oA")>>)

(***************************************************************************)
(* C9, C10: getPlacesFromFoursquare. The step on which the lookup returns  *)
(* has the search response and the detail promises in its first state and  *)
(* the result in its second.                                               *)
(***************************************************************************)
LookupReturnsNow == lpc # "returned" /\ lpc' = "returned"
SearchFailedStatus == searchResponse.t = "response" /\ ~IsOk(searchResponse)
SearchRateLimited == searchResponse.t = "response" /\ searchResponse.status \in {429, 402}
SearchThrew == searchResponse.t = "throw"
SearchBodyThrew ==
    searchResponse.t = "response" /\ IsOk(searchResponse) /\ BodyThrows(searchResponse)
SearchGaveData ==
    searchResponse.t = "response" /\ IsOk(searchResponse) /\ ~BodyThrows(searchResponse)
SearchResults == ResultsOf(searchResponse.body.data)
FirstResults == SubSeq(SearchResults, 1, Min(Len(SearchResults), MaxDetails))
\* a null search result: its detail task throws outside its own try
DetailTaskThrew == SearchGaveData /\ \E i \in 1..Len(FirstResults) : FirstResults[i] = NullV
\* a detail fetch or the parsing of its body threw
DetailFetchThrew(r) == r.t = "throw" \/ (IsOk(r) /\ BodyThrows(r))
DetailFailed(r) == r.t = "throw" \/ ~IsOk(r) \/ BodyThrows(r)
SomeDetailFetchThrew ==
    \E i \in 1..Len(slots) : slots[i].st = "fulfilled" /\ DetailFetchThrew(slots[i].fetched)

IsLookupResult(v) ==
    /\ DOMAIN v = {"places", "rateLimited"}
    /\ v.rateLimited \in BOOLEAN
    /\ DOMAIN v.places = 1..Len(v.places)

\* C9 as claimed: the lookup always returns a {places, rateLimited} result; a
\* search status of 429 or 402 gives {[], true}; any other non-success status,
\* and any exception raised anywhere inside the lookup (the search call, the
\* parsing of the response body, the detail fan-out), gives {[], false}.
C9_AnyExceptionEmptiesTheList ==
    [][LookupReturnsNow =>
          /\ IsLookupResult(foursquareResult')
          /\ SearchRateLimited => foursquareResult' = EmptyResult(TRUE)
          /\ (SearchFailedStatus /\ ~SearchRateLimited) => foursquareResult' = EmptyResult(FALSE)
          /\ (SearchThrew \/ SearchBodyThrew \/ DetailTaskThrew \/ SomeDetailFetchThrew)
                => foursquareResult' = EmptyResult(FALSE)]_vars

\* C9 as amended: the lookup always returns a {places, rateLimited} result, with
\* which the handler goes on; a search status of 429 or 402 gives
\* {[], true} and nothing else does; any other non-success status, an exception
\* of the search call or of the parsing of its body, and an exception that
\* escapes a detail task (a null search result) give {[], false}; an exception
\* of a detail fetch or of the parsing of its body is caught for its place and
\* leaves a list with one entry for each of the places fetched.
C9_LookupNeverThrows ==
    [][LookupReturnsNow =>
          /\ IsLookupResult(foursquareResult')
          /\ pc' \in {"awaitGenerate", "awaitEnhance", "done"}
          /\ SearchRateLimited <=> foursquareResult'.rateLimited
          /\ SearchRateLimited => foursquareResult' = EmptyResult(TRUE)
          /\ (SearchFailedStatus /\ ~SearchRateLimited) => foursquareResult' = EmptyResult(FALSE)
          /\ (SearchThrew \/ SearchBodyThrew \/ DetailTaskThrew)
                => foursquareResult' = EmptyResult(FALSE)
          /\ SomeDetailFetchThrew =>
                /\ ~foursquareResult'.rateLimited
                /\ Len(foursquareResult'.places) = Len(slots)]_vars

\* C9's case: the second search result was null, its detail task threw, and the
\* lookup returned {[], false} to the handler while the first detail fetch was
\* still in flight
C9_Witness ==
    /\ lpc = "returned"
    /\ foursquareResult = EmptyResult(FALSE)
    /\ Len(slots) = 3
    /\ slots[1].st = "pending"
    /\ slots[2].st = "rejected"
    /\ pc = "awaitGenerate"

\* the steps of the detail fan-out; objectsOnly restricts the first step to
\* search results whose first min(n, 3) entries are objects
FanOutStep(objectsOnly) ==
    (lpc = "searched" /\ SearchGaveData /\ (objectsOnly => ~DetailTaskThrew)) =>
        LET n == Len(SearchResults)
        IN  /\ calls'.detail = Min(n, MaxDetails)
            /\ calls'.search = 1
            /\ IF n = 0
               THEN lpc' = "returned" /\ foursquareResult' = EmptyResult(FALSE)
               ELSE /\ lpc' = "details"
                    /\ Len(slots') = Min(n, MaxDetails)
                    /\ \A i \in 1..Len(slots') : slots'[i].st = "pending"

DetailStep ==
    (lpc = "details" /\ lpc' = "details") =>
        \E i \in Pending(slots) :
            /\ Len(slots') = Len(slots)
            /\ \A j \in 1..Len(slots) : j # i => slots'[j] = slots[j]
            /\ slots'[i].st = "fulfilled"
            /\ IF DetailFailed(slots'[i].fetched)
               THEN slots'[i].value = CoarsePlace(SearchResults[i])
               ELSE \E today \in WeekDays :
                       slots'[i].value
                         = DetailedPlace(SearchResults[i], slots'[i].fetched.body.data, today)
            /\ calls' = calls

JoinStep ==
    (lpc = "details" /\ lpc' = "returned") =>
        /\ Pending(slots) = {}
        /\ foursquareResult'.rateLimited = FALSE
        /\ Len(foursquareResult'.places) = Min(Len(SearchResults), MaxDetails)
        /\ \A i \in 1..Len(slots) : foursquareResult'.places[i] = slots[i].value
        /\ calls'.detail = Min(Len(SearchResults), MaxDetails)

\* C10 as claimed: after a successful search with n results, detail fetches are
\* issued for exactly the first min(n, 3), and min(n, 3) places are returned in
\* the order of the search response, whatever order the fetches complete in; a
\* fetch that fails (exception or non-success status) makes only its own entry
\* the coarse one and leaves the others and their places in the list unchanged.
C10_FanOutOfAnyResults ==
    [][FanOutStep(FALSE) /\ DetailStep /\ JoinStep]_vars

\* C10, the part the code keeps: the same, after a successful search whose first
\* min(n, 3) results are objects. A null among them makes its detail task throw
\* at place.fsq_id and again in the catch at place.name, so the whole lookup
\* returns the empty list, with fewer fetches issued.
C10_FanOutOfObjects ==
    [][FanOutStep(TRUE) /\ DetailStep /\ JoinStep]_vars

\* C10 among objects: four results, the three fetches done, the second one failed:
\* its entry is the coarse one, between two detailed ones
C10_Witness ==
    /\ lpc = "details"
    /\ Len(SearchResults) = 4
    /\ Pending(slots) = {}
    /\ slots[2].fetched = Threw
    /\ <<slots[1].value, slots[2].value, slots[3].value>>
         = <<DetailedPlace(P1, DetailOf(P1), 1), CoarsePlace(P2), DetailedPlace(P2, DetailOf(P2), 1)>>

(***************************************************************************)
(* C11: request gating                                                     *)
(***************************************************************************)
MissingFields ==
    /\ event.httpMethod = "POST"
    /\ event.body.t = "object"
    /\ event.body.location = "" \/ event.body.mood = ""
Gated == event.httpMethod # "POST" \/ MissingFields

\* C11: an OPTIONS request is answered 200 with an empty body, a method other
\* than OPTIONS and POST 405, a POST whose parsed body has no truthy location or
\* no truthy mood 400 with {error: "Location and mood are required"}; in these
\* three cases the handler goes from its start to its answer with no places and
\* no text-generation call; every response carries the CORS headers.
C11_GatingPrecedesProcessing ==
    /\ Gated =>
          /\ pc \in {"start", "done"}
          /\ calls = NoCalls
          /\ lpc = "idle"
          /\ foursquareResult = NoResult /\ geminiResponse = NoFetch
    /\ (Answered /\ event.httpMethod = "OPTIONS") =>
          response.statusCode = 200 /\ response.body = [t |-> "empty"]
    /\ (Answered /\ event.httpMethod \notin {"OPTIONS", "POST"}) => response.statusCode = 405
    /\ (Answered /\ MissingFields) =>
          /\ response.statusCode = 400
          /\ response.body = [t |-> "json", error |-> "Location and mood are required"]
    /\ Answered => response.headers = CorsHeaders

\* C11's case: both credentials configured, a POST with a location and no mood
\* answered 400 without a call
C11_Witness ==
    /\ Answered
    /\ env.FOURSQUARE_API_KEY /\ env.GEMINI_API_KEY
    /\ event.httpMethod = "POST" /\ event.body.t = "object"
    /\ event.body.location = "Seattle" /\ event.body.mood = ""
    /\ response = ErrorResponse(400, "Location and mood are required")
    /\ calls = NoCalls

(***************************************************************************)
(* C12: no outbound call is retried                                        *)
(***************************************************************************)
TextGenerationIssued == calls'.gemini > calls.gemini
\* what the invocation is waiting for while it has not answered
Awaiting ==
    \/ pc = "start"
    \/ pc = "awaitLookup" /\ lpc \in {"search", "searched", "details"}
    \/ pc \in {"awaitGenerate", "awaitEnhance"}

AtMostOnce ==
    /\ calls'.search <= 1
    /\ calls'.detail <= MaxDetails
    /\ calls'.gemini <= 1
    /\ calls'.generate + calls'.enhance <= 1
OneResponse ==
    /\ response # NoResponse => response' = response
    /\ pc' = "done" <=> response' # NoResponse
    /\ pc' # "done" => Awaiting'

\* C12: in one invocation the handler issues at most one search request, at most
\* three detail requests and at most one text-generation request; the
\* text-generation request is issued only once the lookup has returned with no
\* detail request of its fan-out still in flight; the invocation answers once,
\* and while it has not answered it is waiting for a call.
C12_NoRetryAfterJoin ==
    [][/\ AtMostOnce
       /\ OneResponse
       /\ (TextGenerationIssued /\ env.FOURSQUARE_API_KEY) =>
             lpc' = "returned" /\ Pending(slots') = {}]_vars

\* C12, the part the code keeps: the same, with the text-generation request
\* issued only once the lookup has returned, by Promise.all resolving or by its
\* rejecting (when a detail request may still be in flight).
C12_NoRetry ==
    [][/\ AtMostOnce
       /\ OneResponse
       /\ (TextGenerationIssued /\ env.FOURSQUARE_API_KEY) => lpc' = "returned"]_vars

(***************************************************************************)
(* C13: the fallback tiers                                                 *)
(***************************************************************************)
\* the text-generation call failed or gave no usable list
TextGenerationFailed(r) ==
    ListedFailure(r) \/ (r.t = "response" /\ IsOk(r) /\ BodyThrows(r))
EnhanceFailed == calls.enhance = 1 /\ TextGenerationAnswered /\ TextGenerationFailed(geminiResponse)
GenerateFailed ==
    calls.generate = 1 /\ TextGenerationAnswered /\ TextGenerationFailed(geminiResponse)

\* C13 as claimed: a failure or malformed output of the text-generation provider
\* is absorbed, the response is 200; after a failed enhanceWithGemini the handler
\* falls back to getGeminiRecommendations, and a failed getGeminiRecommendations
\* falls back to the mock data.
C13_EnhanceFallsBackToGenerate ==
    /\ (Answered /\ TextGenerationAnswered) => response.statusCode = 200
    /\ (Answered /\ EnhanceFailed) => calls.generate = 1
    /\ (Answered /\ GenerateFailed) => recommendations = getMockRecommendations(Mood)

\* C13 as amended: a failure or malformed output of the text-generation provider
\* is absorbed, the response is 200; a lookup that returns no place falls back
\* to getGeminiRecommendations; a failed getGeminiRecommendations falls back to
\* the mock data; a failed enhanceWithGemini does not fall back to
\* getGeminiRecommendations: it keeps the places of the lookup, each with one of
\* the two templated descriptions, and the source stays "foursquare".
C13_FallbackTiers ==
    /\ (Answered /\ TextGenerationAnswered) => response.statusCode = 200
    /\ (LookupReturned /\ foursquareResult.places = <<>>) =>
          calls.generate = 1 /\ calls.enhance = 0
    /\ (Answered /\ GenerateFailed) =>
          /\ recommendations = getMockRecommendations(Mood)
          /\ response.body.source = "ai"
    /\ (Answered /\ EnhanceFailed) =>
          /\ calls.generate = 0
          /\ calls.gemini = 1
          /\ response.body.source = "foursquare"
          /\ recommendations \in {GreatSpotIn(enhanceInput, Mood, Location),
                                  PopularDestination(enhanceInput, Mood)}

\* C13's case: the fetch of enhanceWithGemini threw; the two places of the
\* lookup are answered with the templated description and nothing was generated
C13_Witness ==
    /\ Answered
    /\ calls.enhance = 1 /\ calls.generate = 0
    /\ geminiResponse = Threw
    /\ Len(enhanceInput) = 2
    /\ response.statusCode = 200
    /\ response.body.recommendations = GreatSpotIn(enhanceInput, Mood, Location)

(***************************************************************************)
(* C14: formatAddress                                                      *)
(***************************************************************************)
NonEmptyText(v) == v.t = "string" /\ v.s # <<>>

\* the non-empty fields among `fields`, in that order, with ", " between them
RECURSIVE JoinNonEmpty(_, _)
JoinNonEmpty(location, fields) ==
    IF fields = <<>> THEN <<>>
    ELSE LET v == Prop(location, Head(fields))
             rest == JoinNonEmpty(location, Tail(fields))
         IN  IF ~NonEmptyText(v) THEN rest
             ELSE IF rest = <<>> THEN v.s
             ELSE v.s \o <<",", " ">> \o rest

\* the location formatAddress was given for slot i: that of the detail when the
\* detail fetch gave one, else that of the search result
LocationOf(i) ==
    IF DetailFailed(slots[i].fetched)
    THEN Prop(SearchResults[i], "location")
    ELSE Prop(slots[i].fetched.body.data, "location")

\* C14: the address of an entry is the non-empty fields among address, locality,
\* region, postcode of its location, in that order, joined with ", "; it is
\* null, and never the empty string, when the location is missing or none of
\* the four fields is non-empty.
C14_FormatAddress ==
    lpc = "details" =>
        \A i \in 1..Len(slots) :
            slots[i].st = "fulfilled" =>
                LET l == LocationOf(i)
                    a == slots[i].value.address
                IN  /\ a # StrV(<<>>)
                    /\ IF l.t # "object" \/ JoinNonEmpty(l, AddressFields) = <<>>
                       THEN a = NullV
                       ELSE a = StrV(JoinNonEmpty(l, AddressFields))

\* C14's case: an empty address, a locality, no region and a postcode give
\* "Seattle, 98101"
C14_Witness ==
    /\ lpc = "details"
    /\ Len(slots) = 1 /\ slots[1].st = "fulfilled"
    /\ LocationOf(1) = [t |-> "object", address |-> StrV(<<>>), locality |-> StrV(<<"Seattle">>),
                        region |-> UndefV, postcode |-> StrV(<<"98101">>)]
    /\ slots[1].value.address = StrV(<<"Seattle", ",", " ", "98101">>)

(***************************************************************************)
(* C15: the empty lookup that is not rate limited, and the envelope flags   *)
(***************************************************************************)
IsEnvelope == Answered /\ response.statusCode = 200 /\ response.body.t = "json"

\* C15: with a places credential, once the lookup has returned an empty list
\* that is not rate limited, getGeminiRecommendations is called exactly once
\* (and enhanceWithGemini never), and the response is a 200 envelope with source
\* "ai", rateLimitReached false and a null message; in every 200 envelope the
\* message is non-null exactly when rateLimitReached is true, and
\* rateLimitReached is true exactly when the lookup returned rateLimited true.
C15_EmptyLookupGenerates ==
    /\ (LookupReturned /\ foursquareResult = EmptyResult(FALSE)) =>
          /\ env.FOURSQUARE_API_KEY
          /\ calls.generate = 1 /\ calls.enhance = 0
          /\ calls.gemini <= 1
          /\ pc \in {"awaitGenerate", "done"}
          /\ Answered =>
                /\ response.statusCode = 200
                /\ response.body.source = "ai"
                /\ response.body.rateLimitReached = FALSE
                /\ response.body.message = NullV
    /\ IsEnvelope =>
          /\ response.body.message # NullV <=> response.body.rateLimitReached
          /\ response.body.rateLimitReached
                <=> (LookupReturned /\ foursquareResult.rateLimited)

\* C15's case: the search found nothing (no detail request), the provider text
\* gave a list, and the envelope has source "ai", no flag and no message
C15_Witness ==
    /\ Answered
    /\ foursquareResult = EmptyResult(FALSE)
    /\ calls = [search |-> 1, detail |-> 0, gemini |-> 1, generate |-> 1, enhance |-> 0]
    /\ geminiResponse = TextResponse(<<"[", "oA", "]">>)
    /\ response.body.recommendations = ArrV(<<ObjectOf("oA")>>)
    /\ response.body.source = "ai"
    /\ response.body.rateLimitReached = FALSE
    /\ response.body.message = NullV

(***************************************************************************)
(* C16: the 500 response                                                   *)
(***************************************************************************)
BodyThrew == event.body.t \in {"malformed", "null"}
ServerError == response = ErrorResponse(500, "Failed to get recommendations")

\* C16: a POST is answered 500, with {error: "Failed to get recommendations"},
\* exactly when the parsing or the destructuring of its body throws; once
\* location and mood are validated the response is 200, whatever the places
\* provider and the text-generation provider answer.
C16_ServerErrorOnlyFromBody ==
    (Answered /\ event.httpMethod = "POST") =>
        /\ response.statusCode = 500 <=> BodyThrew
        /\ response.statusCode = 500 => ServerError
        /\ ValidRequest => response.statusCode = 200

\* C16, the part the code keeps: a POST whose body throws is answered 500; a
\* validated request is answered 200 or 500, and 500 only when enhanceWithGemini,
\* with a credential, was given a place whose name or category has no string
\* conversion: its prompt construction throws before any text-generation call.
C16_ServerErrorCauses ==
    (Answered /\ event.httpMethod = "POST") =>
        /\ BodyThrew => ServerError /\ calls = NoCalls
        /\ response.statusCode = 500 => ServerError
        /\ ValidRequest => response.statusCode \in {200, 500}
        /\ (ValidRequest /\ response.statusCode = 500) =>
              /\ env.FOURSQUARE_API_KEY /\ env.GEMINI_API_KEY
              /\ calls.enhance = 1 /\ calls.gemini = 0
              /\ PromptThrows(enhanceInput)

====
